---- MODULE Spec2Model ----
(***************************************************************************)
(* Meshy API nodes of comfy_api_nodes (nodes_meshy.py, apis/meshy.py).     *)
(*                                                                         *)
(* One execute call of one of the seven nodes is modelled as a state       *)
(* machine: the synchronous code between two awaits is one step, every     *)
(* awaited network call (upload, creation, poll, download) is started in   *)
(* one step and returns in the next one, with an outcome chosen by the     *)
(* environment.                                                            *)
(*                                                                         *)
(* Representation.  A Python value that may be None is a sequence: <<>>    *)
(* is None and <<v>> is the value v.  A prompt is represented by its       *)
(* length: the code tests a prompt for emptiness and for its length and    *)
(* otherwise forwards it unchanged.  height_meters is counted in tenths    *)
(* of a meter.  A dict argument (should_remesh, should_texture) is a       *)
(* record whose domain is the set of keys that are present.                *)
(***************************************************************************)
EXTENDS Integers, Sequences, FiniteSets, TLC

VARIABLES
    pc,                 \* position of the execute call
    node,               \* the node class whose execute runs
    args,               \* the arguments execute was called with
    texture_prompt,     \* local of the image nodes (None for the others)
    texture_image_url,  \* local: URL of the uploaded texture / style image
    image_urls,         \* URLs of the uploaded base image(s)
    response,           \* MeshyTaskResponse.result of the creation call
    snapshot,           \* the status response the poll loop received last
    result,             \* local `result`: what poll_op returned
    npolls,             \* status responses received that were not terminal
    calls,              \* log of the network calls started, in order
    inflight,           \* the network calls started and not yet returned
    error,              \* the exception that left execute
    output_dir,         \* files of the output directory
    outputs,            \* the values of the returned IO.NodeOutput
    progress,           \* the progress value surfaced last by the poll loop
    cancelled,          \* set when the caller cancelled this execute call
    peer                \* a second, concurrent execute call while it is suspended

vars == <<pc, node, args, texture_prompt, texture_image_url, image_urls,
          response, snapshot, result, npolls, calls, inflight, error,
          output_dir, outputs, progress, cancelled, peer>>

None == <<>>
Some(v) == <<v>>

(***************************************************************************)
(* Bounds of the model and constants of the program.                       *)
(***************************************************************************)
MaxPolls == 2

PromptMax == 600
PolyMin == 100
PolyMax == 300000
SeedMin == 0
SeedMax == 2147483647
HeightMin == 1
HeightMax == 150
ActionMin == 0
ActionMax == 696

(***************************************************************************)
(* The values execute is called with.                                      *)
(***************************************************************************)
Nodes == {"MeshyTextToModelNode", "MeshyRefineNode", "MeshyImageToModelNode",
          "MeshyMultiImageToModelNode", "MeshyRigModelNode",
          "MeshyAnimateModelNode", "MeshyTextureNode"}

ImageNodes == {"MeshyImageToModelNode", "MeshyMultiImageToModelNode"}

PromptVals == {0, 1, PromptMax, PromptMax + 1}
PolyVals == {PolyMin - 1, PolyMin, PolyMax, PolyMax + 1}
SeedVals == {SeedMin - 1, SeedMin, SeedMax}
HeightVals == {HeightMin - 1, HeightMin, HeightMax, HeightMax + 1}
ActionVals == {ActionMin - 1, ActionMin, ActionMax, ActionMax + 1}
Topologies == {"triangle", "quad"}
PoseModes == {"A-pose"}
TaskIds == {"t0"}
Handles == {"h1", "h2"}
OptImages == {None, Some("imgT")}
ImageLists == {<<"imgA", "imgB">>}

\* InputShouldRemesh: the option "true" carries the sub-fields, the option
\* "false" carries none; the TypedDict declares all three keys.
RemeshDicts ==
    [should_remesh : {"true", "false"}, topology : Topologies, target_polycount : PolyVals]
    \cup {[should_remesh |-> "false"]}

\* InputShouldTexture, likewise.
TextureDicts ==
    [should_texture : {"true", "false"}, enable_pbr : BOOLEAN,
     texture_prompt : PromptVals, texture_image : OptImages]
    \cup {[should_texture |-> "false"]}

Args(n) ==
    CASE n = "MeshyTextToModelNode" ->
           [model : {"latest"}, prompt : PromptVals, style : {"realistic"},
            should_remesh : RemeshDicts, symmetry_mode : {"auto"},
            pose_mode : PoseModes, seed : SeedVals]
      [] n = "MeshyRefineNode" ->
           [model : {"latest"}, meshy_task_id : TaskIds, enable_pbr : BOOLEAN,
            texture_prompt : PromptVals, texture_image : OptImages]
      [] n = "MeshyImageToModelNode" ->
           [model : {"latest"}, image : {"imgA"}, should_remesh : RemeshDicts,
            symmetry_mode : {"auto"}, should_texture : TextureDicts,
            pose_mode : PoseModes, seed : SeedVals]
      [] n = "MeshyMultiImageToModelNode" ->
           [model : {"latest"}, images : ImageLists, should_remesh : RemeshDicts,
            symmetry_mode : {"auto"}, should_texture : TextureDicts,
            pose_mode : PoseModes, seed : SeedVals]
      [] n = "MeshyRigModelNode" ->
           [meshy_task_id : TaskIds, height_meters : HeightVals,
            texture_image : OptImages]
      [] n = "MeshyAnimateModelNode" ->
           [rig_task_id : TaskIds, action_id : ActionVals]
      [] n = "MeshyTextureNode" ->
           [model : {"latest"}, meshy_task_id : TaskIds,
            enable_original_uv : BOOLEAN, pbr : {FALSE},
            text_style_prompt : PromptVals, image_style : OptImages]

(***************************************************************************)
(* Python semantics used by the nodes.                                     *)
(***************************************************************************)
\* every str taken as true, the empty one included (not what the code does)
TruthyAlways(s) == TRUE

\* truth value of a str
Truthy(s) == s > 0

\* dict.get(key, None)
Get(d, k) == IF k \in DOMAIN d THEN Some(d[k]) ELSE None

\* str.lower() on the pose_mode options
Lower(s) ==
    CASE s = "A-pose" -> "a-pose"
      [] s = "T-pose" -> "t-pose"
      [] OTHER -> s

\* validate_string(string, field_name, min_length, max_length) returns
\* normally (TRUE) or raises (FALSE)
validate_string(s, min_length, max_length) ==
    /\ (min_length # None => s >= min_length[1])
    /\ (max_length # None => s <= max_length[1])

\* upload_images_to_comfyapi: one URL per image, in the order submitted
UrlOf(img) == "https://upload/" \o img
upload_images_to_comfyapi(images) == [i \in 1..Len(images) |-> UrlOf(images[i])]

\* get_output_directory() and os.path.join
get_output_directory == "output"
PathJoin(dir, file) == dir \o "/" \o file

(***************************************************************************)
(* Request models (apis/meshy.py).  Each operator named after a pydantic   *)
(* model is the model's validation: TRUE when the constructor returns,     *)
(* FALSE when it raises a ValidationError.  Only declared constraints      *)
(* (ge, le, max_length) are checked.                                       *)
(***************************************************************************)
PolycountField(v) == v = None \/ (v[1] >= PolyMin /\ v[1] <= PolyMax)

MeshyTextToModelRequest(d) ==
    /\ d.prompt <= PromptMax
    /\ PolycountField(d.target_polycount)

MeshyRefineTask(d) == TRUE

MeshyImageToModelRequest(d) ==
    /\ PolycountField(d.target_polycount)
    /\ (d.texture_prompt = None \/ d.texture_prompt[1] <= PromptMax)

MeshyMultiImageToModelRequest(d) ==
    /\ PolycountField(d.target_polycount)
    /\ (d.texture_prompt = None \/ d.texture_prompt[1] <= PromptMax)

MeshyRiggingRequest(d) == TRUE

MeshyAnimationRequest(d) == TRUE

MeshyTextureRequest(d) == TRUE

RequestValid(n, d) ==
    CASE n = "MeshyTextToModelNode" -> MeshyTextToModelRequest(d)
      [] n = "MeshyRefineNode" -> MeshyRefineTask(d)
      [] n = "MeshyImageToModelNode" -> MeshyImageToModelRequest(d)
      [] n = "MeshyMultiImageToModelNode" -> MeshyMultiImageToModelRequest(d)
      [] n = "MeshyRigModelNode" -> MeshyRiggingRequest(d)
      [] n = "MeshyAnimateModelNode" -> MeshyAnimationRequest(d)
      [] n = "MeshyTextureNode" -> MeshyTextureRequest(d)

(***************************************************************************)
(* The keyword arguments each execute passes to its request model.         *)
(* tp, tiu, ius are the locals texture_prompt, texture_image_url and the   *)
(* URLs returned by the base-image upload.                                 *)
(***************************************************************************)
TextToModelData(a) ==
    [mode |-> "preview",
     prompt |-> a.prompt,
     art_style |-> a.style,
     ai_model |-> a.model,
     topology |-> Get(a.should_remesh, "topology"),
     target_polycount |-> Get(a.should_remesh, "target_polycount"),
     should_remesh |-> (a.should_remesh.should_remesh = "true"),
     symmetry_mode |-> a.symmetry_mode,
     pose_mode |-> Lower(a.pose_mode),
     seed |-> a.seed,
     moderation |-> FALSE]

RefineData(a, tiu) ==
    [mode |-> "refine",
     preview_task_id |-> a.meshy_task_id,
     enable_pbr |-> Some(a.enable_pbr),
     texture_prompt |-> IF Truthy(a.texture_prompt) THEN Some(a.texture_prompt) ELSE None,
     texture_image_url |-> tiu,
     ai_model |-> a.model,
     moderation |-> FALSE]

ImageToModelData(a, tp, tiu, ius) ==
    [image_url |-> ius[1],
     ai_model |-> a.model,
     topology |-> Get(a.should_remesh, "topology"),
     target_polycount |-> Get(a.should_remesh, "target_polycount"),
     symmetry_mode |-> a.symmetry_mode,
     should_remesh |-> (a.should_remesh.should_remesh = "true"),
     should_texture |-> (a.should_texture.should_texture = "true"),
     enable_pbr |-> Get(a.should_texture, "enable_pbr"),
     pose_mode |-> Lower(a.pose_mode),
     texture_prompt |-> tp,
     texture_image_url |-> tiu,
     seed |-> a.seed,
     moderation |-> FALSE]

MultiImageToModelData(a, tp, tiu, ius) ==
    [image_urls |-> ius,
     ai_model |-> a.model,
     topology |-> Get(a.should_remesh, "topology"),
     target_polycount |-> Get(a.should_remesh, "target_polycount"),
     symmetry_mode |-> a.symmetry_mode,
     should_remesh |-> (a.should_remesh.should_remesh = "true"),
     should_texture |-> (a.should_texture.should_texture = "true"),
     enable_pbr |-> Get(a.should_texture, "enable_pbr"),
     pose_mode |-> Lower(a.pose_mode),
     texture_prompt |-> tp,
     texture_image_url |-> tiu,
     seed |-> a.seed,
     moderation |-> FALSE]

RiggingData(a, tiu) ==
    [input_task_id |-> a.meshy_task_id,
     height_meters |-> a.height_meters,
     texture_image_url |-> tiu]

AnimationData(a) ==
    [rig_task_id |-> a.rig_task_id,
     action_id |-> a.action_id]

TextureData(a, tiu) ==
    [input_task_id |-> a.meshy_task_id,
     ai_model |-> a.model,
     enable_original_uv |-> a.enable_original_uv,
     enable_pbr |-> a.pbr,
     text_style_prompt |-> IF Truthy(a.text_style_prompt) THEN Some(a.text_style_prompt) ELSE None,
     image_style_url |-> tiu]

RequestData(n, a, tp, tiu, ius) ==
    CASE n = "MeshyTextToModelNode" -> TextToModelData(a)
      [] n = "MeshyRefineNode" -> RefineData(a, tiu)
      [] n = "MeshyImageToModelNode" -> ImageToModelData(a, tp, tiu, ius)
      [] n = "MeshyMultiImageToModelNode" -> MultiImageToModelData(a, tp, tiu, ius)
      [] n = "MeshyRigModelNode" -> RiggingData(a, tiu)
      [] n = "MeshyAnimateModelNode" -> AnimationData(a)
      [] n = "MeshyTextureNode" -> TextureData(a, tiu)

(***************************************************************************)
(* Endpoints, file names and result fields.                                *)
(***************************************************************************)
\* ApiEndpoint(path=..., method="POST") of the sync_op call
CreatePath(n) ==
    CASE n = "MeshyTextToModelNode" -> "/proxy/meshy/openapi/v2/text-to-3d"
      [] n = "MeshyRefineNode" -> "/proxy/meshy/openapi/v2/text-to-3d"
      [] n = "MeshyImageToModelNode" -> "/proxy/meshy/openapi/v1/image-to-3d"
      [] n = "MeshyMultiImageToModelNode" -> "/proxy/meshy/openapi/v1/multi-image-to-3d"
      [] n = "MeshyRigModelNode" -> "/proxy/meshy/openapi/v1/rigging"
      [] n = "MeshyAnimateModelNode" -> "/proxy/meshy/openapi/v1/animations"
      [] n = "MeshyTextureNode" -> "/proxy/meshy/openapi/v1/retexture"

\* the task id among the arguments, where the node takes one
InputTaskId(a) ==
    IF "meshy_task_id" \in DOMAIN a THEN a.meshy_task_id
    ELSE IF "rig_task_id" \in DOMAIN a THEN a.rig_task_id
    ELSE "none"

\* a status path built from the task id passed in (not what the code does)
StatusPathOfInput(n, h) ==
    CASE n = "MeshyTextToModelNode" -> "/proxy/meshy/openapi/v2/text-to-3d/" \o InputTaskId(args)
      [] n = "MeshyRefineNode" -> "/proxy/meshy/openapi/v2/text-to-3d/" \o InputTaskId(args)
      [] n = "MeshyImageToModelNode" -> "/proxy/meshy/openapi/v1/image-to-3d/" \o InputTaskId(args)
      [] n = "MeshyMultiImageToModelNode" -> "/proxy/meshy/openapi/v1/multi-image-to-3d/" \o InputTaskId(args)
      [] n = "MeshyRigModelNode" -> "/proxy/meshy/openapi/v1/rigging/" \o InputTaskId(args)
      [] n = "MeshyAnimateModelNode" -> "/proxy/meshy/openapi/v1/animations/" \o InputTaskId(args)
      [] n = "MeshyTextureNode" -> "/proxy/meshy/openapi/v1/retexture/" \o InputTaskId(args)

\* ApiEndpoint(path=f".../{response.result}") of the poll_op call
StatusPath(n, h) ==
    CASE n = "MeshyTextToModelNode" -> "/proxy/meshy/openapi/v2/text-to-3d/" \o h
      [] n = "MeshyRefineNode" -> "/proxy/meshy/openapi/v2/text-to-3d/" \o h
      [] n = "MeshyImageToModelNode" -> "/proxy/meshy/openapi/v1/image-to-3d/" \o h
      [] n = "MeshyMultiImageToModelNode" -> "/proxy/meshy/openapi/v1/multi-image-to-3d/" \o h
      [] n = "MeshyRigModelNode" -> "/proxy/meshy/openapi/v1/rigging/" \o h
      [] n = "MeshyAnimateModelNode" -> "/proxy/meshy/openapi/v1/animations/" \o h
      [] n = "MeshyTextureNode" -> "/proxy/meshy/openapi/v1/retexture/" \o h

\* model_file = f"meshy_model_{response.result}.glb"
ModelFile(h) == "meshy_model_" \o h \o ".glb"

(***************************************************************************)
(* Response models (apis/meshy.py).  A status response of the vendor is a  *)
(* record [status, progress, url, message]; url and message are None when  *)
(* the response does not carry them.  Each operator named after a pydantic *)
(* model parses such a response, with the defaults the model declares.     *)
(***************************************************************************)
RawSnapshots ==
    { [status |-> "PENDING", progress |-> 0, url |-> None, message |-> None],
      [status |-> "IN_PROGRESS", progress |-> 10, url |-> None, message |-> None],
      [status |-> "IN_PROGRESS", progress |-> 55,
       url |-> Some("https://assets/early.glb"), message |-> None],
      [status |-> "SUCCEEDED", progress |-> 100, url |-> None, message |-> None],
      [status |-> "SUCCEEDED", progress |-> 100,
       url |-> Some("https://assets/final.glb"), message |-> None],
      [status |-> "FAILED", progress |-> 55, url |-> None, message |-> None],
      [status |-> "FAILED", progress |-> 55, url |-> None, message |-> Some("bad mesh")] }

\* str = Field("") of the three *Urls models
UrlField(raw) == IF raw.url = None THEN "" ELSE raw.url[1]

\* task_error: MeshyTaskError | None = Field(None)
MeshyTaskError(raw) ==
    IF raw.message = None THEN None ELSE Some([message |-> raw.message])

MeshyModelResult(raw) ==
    [status |-> raw.status,
     progress |-> raw.progress,
     model_urls |-> [glb |-> UrlField(raw)],
     thumbnail_url |-> "https://assets/thumb.png",
     task_error |-> MeshyTaskError(raw)]

MeshyRiggedResult(raw) ==
    [status |-> raw.status,
     progress |-> raw.progress,
     result |-> [rigged_character_glb_url |-> UrlField(raw)],
     task_error |-> MeshyTaskError(raw)]

MeshyAnimationResult(raw) ==
    [status |-> raw.status,
     progress |-> raw.progress,
     result |-> [animation_glb_url |-> UrlField(raw)],
     task_error |-> MeshyTaskError(raw)]

\* response_model= of the poll_op call
ResponseModel(n, raw) ==
    CASE n = "MeshyRigModelNode" -> MeshyRiggedResult(raw)
      [] n = "MeshyAnimateModelNode" -> MeshyAnimationResult(raw)
      [] OTHER -> MeshyModelResult(raw)

\* a status extractor that reads no status (not what the code does)
status_extractor_blind(r) == "IN_PROGRESS"

\* status_extractor=lambda r: r.status
status_extractor(r) == r.status

\* an extractor that surfaces no progress (not what the code does)
progress_extractor_zero(r) == 0

\* progress_extractor=lambda r: r.progress
progress_extractor(r) == r.progress

\* a download of the thumbnail instead of the model (not what the code does)
ArtifactUrlThumbnail(n, r) ==
    CASE n = "MeshyRigModelNode" -> r.result.rigged_character_glb_url
      [] n = "MeshyAnimateModelNode" -> r.result.animation_glb_url
      [] OTHER -> r.thumbnail_url

\* first argument of download_url_to_bytesio
ArtifactUrl(n, r) ==
    CASE n = "MeshyRigModelNode" -> r.result.rigged_character_glb_url
      [] n = "MeshyAnimateModelNode" -> r.result.animation_glb_url
      [] OTHER -> r.model_urls.glb

(***************************************************************************)
(* poll_op: the loop goes on while the status is pending or in progress    *)
(* and ends on succeeded or failed; on failed it raises an error that      *)
(* carries the vendor's message when there is one.                         *)
(***************************************************************************)
PollSucceeded(s) == s = "SUCCEEDED"
PollFailed(s) == s = "FAILED"

PollFailure(r) ==
    [kind |-> "job_failed",
     message |-> IF r.task_error # None /\ r.task_error[1].message # None
                 THEN <<"Task failed", r.task_error[1].message[1]>>
                 ELSE <<"Task failed">>]

(***************************************************************************)
(* Exceptions.                                                             *)
(***************************************************************************)
ValueError(msg) == [kind |-> "validation", message |-> <<"ValueError", msg>>]
StringInvalid(field) == [kind |-> "validation", message |-> <<"validate_string", field>>]
ValidationError(n) == [kind |-> "validation", message |-> <<"ValidationError", n>>]
UploadError == [kind |-> "upload", message |-> <<"upload failed">>]
SubmissionError == [kind |-> "submission", message |-> <<"creation failed">>]
PollTransportError == [kind |-> "poll", message |-> <<"status request failed">>]
FetchError == [kind |-> "fetch", message |-> <<"download failed">>]

(***************************************************************************)
(* Control flow shared by the execute methods.  fl is the set of calls in  *)
(* flight when the step is taken; tp, tiu, ius are the values of the       *)
(* locals after it.                                                        *)
(***************************************************************************)
Step(p, e, cs, fl, tp, tiu, ius) ==
    /\ pc' = p
    /\ error' = e
    /\ calls' = cs
    /\ inflight' = fl
    /\ texture_prompt' = tp
    /\ texture_image_url' = tiu
    /\ image_urls' = ius
    /\ cancelled' = cancelled
    /\ peer' = peer

\* an exception that is swallowed: execute ends without an error (not what
\* the code does)
RaiseSwallowed(e, fl, tp, tiu, ius) == Step("raised", None, calls, fl, tp, tiu, ius)

\* an exception that is recorded while execute stays at the same place (not
\* what the code does)
RaiseNotTerminal(e, fl, tp, tiu, ius) == Step(pc, e, calls, fl, tp, tiu, ius)

\* an exception leaves execute: nothing catches it
Raise(e, fl, tp, tiu, ius) == Step("raised", e, calls, fl, tp, tiu, ius)

\* `await f(...)`: the call c is started and execute is suspended at p
Start(p, c, fl, tp, tiu, ius) ==
    Step(p, None, Append(calls, c), fl \cup {c.call}, tp, tiu, ius)

\* a call that is left running when the code goes on (not what the code does)
AwaitNotJoined(fl, c) == fl

\* `await`: the code after it runs only when the call c has returned
Await(fl, c) == fl \ {c}

\* a check of the two guidances that never fires (not what the code does)
BothGuidanceIgnored(prompt, image) == FALSE

\* `if texture_prompt and texture_image is not None` (retexture:
\* `if text_style_prompt and image_style is not None`)
BothGuidance(prompt, image) == Truthy(prompt) /\ image # None

\* a check for a missing style source that never fires (not what the code does)
NoGuidanceIgnored(prompt, image) == FALSE

\* neither text_style_prompt nor image_style given
NoGuidance(prompt, image) == ~Truthy(prompt) /\ image = None

\* the image of the texturing slot, None when the code does not read one
TextureImage(n, a) ==
    CASE n \in {"MeshyRefineNode", "MeshyRigModelNode"} -> a.texture_image
      [] n \in ImageNodes ->
           IF a.should_texture.should_texture = "true"
           THEN a.should_texture.texture_image ELSE None
      [] n = "MeshyTextureNode" -> a.image_style
      [] OTHER -> None

TextureLabel(n) == IF n = "MeshyTextureNode" THEN "Uploading style" ELSE "Uploading texture"

\* the base image(s) of the image nodes: image, list(images.values())
BaseImages(n, a) == IF n = "MeshyImageToModelNode" THEN <<a.image>> ELSE a.images

BaseLabel(n) ==
    IF n = "MeshyImageToModelNode" THEN "Uploading base image" ELSE "Uploading base images"

\* the request model is constructed, then sync_op is awaited
BuildAndCreate(n, a, fl, tp, tiu, ius) ==
    LET d == RequestData(n, a, tp, tiu, ius) IN
    IF RequestValid(n, d)
    THEN Start("await_create",
               [call |-> "create", path |-> CreatePath(n), method |-> "POST", data |-> d],
               fl, tp, tiu, ius)
    ELSE Raise(ValidationError(n), fl, tp, tiu, ius)

\* the image nodes upload the base image(s) while the arguments of the
\* request model are evaluated, before the model is constructed
UploadBaseOrCreate(n, a, fl, tp, tiu) ==
    IF n \in ImageNodes
    THEN Start("await_upload_base",
               [call |-> "upload_base", images |-> BaseImages(n, a), wait_label |-> BaseLabel(n)],
               fl, tp, tiu, None)
    ELSE BuildAndCreate(n, a, fl, tp, tiu, None)

\* `if texture_image is not None: texture_image_url = (await upload...)[0]`
UploadTextureOrNext(n, a, fl, tp) ==
    LET img == TextureImage(n, a) IN
    IF img # None
    THEN Start("await_upload_texture",
               [call |-> "upload_texture", images |-> <<img[1]>>, wait_label |-> TextureLabel(n)],
               fl, tp, None, None)
    ELSE UploadBaseOrCreate(n, a, fl, tp, None)

(***************************************************************************)
(* The code of each execute from its entry to its first await or raise.    *)
(***************************************************************************)
TextToModelExecute(a, fl) ==
    IF ~validate_string(a.prompt, Some(1), Some(PromptMax))
    THEN Raise(StringInvalid("prompt"), fl, None, None, None)
    ELSE BuildAndCreate("MeshyTextToModelNode", a, fl, None, None, None)

RefineExecute(a, fl) ==
    IF BothGuidance(a.texture_prompt, a.texture_image)
    THEN Raise(ValueError("texture_prompt and texture_image cannot be used at the same time"),
               fl, None, None, None)
    ELSE IF Truthy(a.texture_prompt) /\ ~validate_string(a.texture_prompt, None, Some(PromptMax))
    THEN Raise(StringInvalid("texture_prompt"), fl, None, None, None)
    ELSE UploadTextureOrNext("MeshyRefineNode", a, fl, None)

ImageToModelExecute(a, fl) ==
    LET st == a.should_texture
        texture == st.should_texture = "true"
    IN  IF texture
        THEN IF BothGuidance(st.texture_prompt, st.texture_image)
             THEN Raise(ValueError("texture_prompt and texture_image cannot be used at the same time"),
                        fl, None, None, None)
             ELSE IF Truthy(st.texture_prompt)
                     /\ ~validate_string(st.texture_prompt, None, Some(PromptMax))
             THEN Raise(StringInvalid("texture_prompt"), fl, None, None, None)
             ELSE UploadTextureOrNext("MeshyImageToModelNode", a, fl,
                      IF Truthy(st.texture_prompt) THEN Some(st.texture_prompt) ELSE None)
        ELSE UploadBaseOrCreate("MeshyImageToModelNode", a, fl, None, None)

MultiImageToModelExecute(a, fl) ==
    LET st == a.should_texture
        texture == st.should_texture = "true"
    IN  IF texture
        THEN IF BothGuidance(st.texture_prompt, st.texture_image)
             THEN Raise(ValueError("texture_prompt and texture_image cannot be used at the same time"),
                        fl, None, None, None)
             ELSE IF Truthy(st.texture_prompt)
                     /\ ~validate_string(st.texture_prompt, None, Some(PromptMax))
             THEN Raise(StringInvalid("texture_prompt"), fl, None, None, None)
             ELSE UploadTextureOrNext("MeshyMultiImageToModelNode", a, fl,
                      IF Truthy(st.texture_prompt) THEN Some(st.texture_prompt) ELSE None)
        ELSE UploadBaseOrCreate("MeshyMultiImageToModelNode", a, fl, None, None)

RigModelExecute(a, fl) == UploadTextureOrNext("MeshyRigModelNode", a, fl, None)

AnimateModelExecute(a, fl) ==
    BuildAndCreate("MeshyAnimateModelNode", a, fl, None, None, None)

TextureExecute(a, fl) ==
    IF BothGuidance(a.text_style_prompt, a.image_style)
    THEN Raise(ValueError("text_style_prompt and image_style cannot be used at the same time"),
               fl, None, None, None)
    ELSE IF NoGuidance(a.text_style_prompt, a.image_style)
    THEN Raise(ValueError("Either text_style_prompt or image_style is required"),
               fl, None, None, None)
    ELSE UploadTextureOrNext("MeshyTextureNode", a, fl, None)

Entry(n, a, fl) ==
    CASE n = "MeshyTextToModelNode" -> TextToModelExecute(a, fl)
      [] n = "MeshyRefineNode" -> RefineExecute(a, fl)
      [] n = "MeshyImageToModelNode" -> ImageToModelExecute(a, fl)
      [] n = "MeshyMultiImageToModelNode" -> MultiImageToModelExecute(a, fl)
      [] n = "MeshyRigModelNode" -> RigModelExecute(a, fl)
      [] n = "MeshyAnimateModelNode" -> AnimateModelExecute(a, fl)
      [] n = "MeshyTextureNode" -> TextureExecute(a, fl)

\* return IO.NodeOutput(model_file, response.result)
NodeOutput(h) == <<ModelFile(h), h>>

(***************************************************************************)
(* Actions.                                                                *)
(***************************************************************************)
\* the state of an execute call that has not started: every local unset
Idle ==
    [pc |-> "idle", node |-> "none", args |-> None, texture_prompt |-> None,
     texture_image_url |-> None, image_urls |-> None, response |-> None,
     snapshot |-> None, result |-> None, npolls |-> 0, calls |-> <<>>,
     inflight |-> {}, error |-> None, outputs |-> None, progress |-> None,
     cancelled |-> None]

Init ==
    /\ pc = "idle"
    /\ node = "none"
    /\ args = None
    /\ texture_prompt = None
    /\ texture_image_url = None
    /\ image_urls = None
    /\ response = None
    /\ snapshot = None
    /\ result = None
    /\ npolls = 0
    /\ calls = <<>>
    /\ inflight = {}
    /\ error = None
    /\ output_dir = {}
    /\ outputs = None
    /\ progress = None
    /\ cancelled = None
    /\ peer = Idle

\* execute is called
Execute ==
    /\ pc = "idle"
    /\ \E n \in Nodes : \E a \in Args(n) :
         /\ node' = n
         /\ args' = a
         /\ Entry(n, a, inflight)
    /\ UNCHANGED <<response, snapshot, result, npolls, output_dir, outputs, progress>>

\* the upload of the texture / style image returns or raises
UploadTextureReturn ==
    /\ pc = "await_upload_texture"
    /\ \E ok \in BOOLEAN :
         IF ok
         THEN UploadBaseOrCreate(node, args, Await(inflight, "upload_texture"), texture_prompt,
                  Some(upload_images_to_comfyapi(<<TextureImage(node, args)[1]>>)[1]))
         ELSE Raise(UploadError, Await(inflight, "upload_texture"), texture_prompt, None, None)
    /\ UNCHANGED <<node, args, response, snapshot, result, npolls, output_dir, outputs, progress>>

\* the upload of the base image(s) returns or raises
UploadBaseReturn ==
    /\ pc = "await_upload_base"
    /\ \E ok \in BOOLEAN :
         IF ok
         THEN BuildAndCreate(node, args, Await(inflight, "upload_base"), texture_prompt,
                  texture_image_url, upload_images_to_comfyapi(BaseImages(node, args)))
         ELSE Raise(UploadError, Await(inflight, "upload_base"), texture_prompt,
                  texture_image_url, None)
    /\ UNCHANGED <<node, args, response, snapshot, result, npolls, output_dir, outputs, progress>>

\* a creation call that is issued again when it fails (not what the code does)
CreateFailedRetry ==
    /\ Start("await_create", calls[Len(calls)], Await(inflight, "create"),
             texture_prompt, texture_image_url, image_urls)
    /\ UNCHANGED <<node, args, response, snapshot, result, npolls, output_dir, outputs, progress>>

\* sync_op raises: the exception leaves execute
CreateFailed ==
    /\ Raise(SubmissionError, Await(inflight, "create"),
             texture_prompt, texture_image_url, image_urls)
    /\ UNCHANGED <<node, args, response, snapshot, result, npolls, output_dir, outputs, progress>>

\* sync_op returned the MeshyTaskResponse: poll_op is awaited
CreateSucceeded(h) ==
    /\ response' = Some(h)
    /\ Start("await_poll", [call |-> "poll", path |-> StatusPath(node, h)],
             Await(inflight, "create"), texture_prompt, texture_image_url, image_urls)
    /\ UNCHANGED <<node, args, snapshot, result, npolls, output_dir, outputs, progress>>

\* the creation call returns or raises
CreateReturn ==
    /\ pc = "await_create"
    /\ \E ok \in BOOLEAN : \E h \in Handles :
         IF ok THEN CreateSucceeded(h) ELSE CreateFailed

\* one status request of poll_op returns, or raises (raw = None)
PollReturn ==
    /\ pc = "await_poll"
    /\ \E raw \in RawSnapshots \cup {None} :
         IF raw = None
         THEN /\ Raise(PollTransportError, Await(inflight, "poll"),
                       texture_prompt, texture_image_url, image_urls)
              /\ UNCHANGED <<snapshot, result, npolls, progress>>
         ELSE LET r == ResponseModel(node, raw)
                  s == status_extractor(r)
              IN  /\ snapshot' = raw
                  /\ progress' = Some(progress_extractor(r))
                  /\ IF PollSucceeded(s)
                     THEN /\ result' = r
                          /\ npolls' = npolls
                          /\ Start("await_download",
                                   [call |-> "download", url |-> ArtifactUrl(node, r),
                                    dest |-> PathJoin(get_output_directory, ModelFile(response[1]))],
                                   Await(inflight, "poll"),
                                   texture_prompt, texture_image_url, image_urls)
                     ELSE IF PollFailed(s)
                     THEN /\ result' = result
                          /\ npolls' = npolls
                          /\ Raise(PollFailure(r), Await(inflight, "poll"),
                                   texture_prompt, texture_image_url, image_urls)
                     ELSE /\ npolls < MaxPolls
                          /\ result' = result
                          /\ npolls' = npolls + 1
                          /\ Start("await_poll",
                                   [call |-> "poll", path |-> StatusPath(node, response[1])],
                                   Await(inflight, "poll"),
                                   texture_prompt, texture_image_url, image_urls)
    /\ UNCHANGED <<node, args, response, output_dir, outputs>>

\* the download returns (the file is written, execute returns) or raises
DownloadReturn ==
    /\ pc = "await_download"
    /\ \E ok \in BOOLEAN :
         IF ok
         THEN /\ output_dir' = output_dir \cup {calls[Len(calls)].dest}
              /\ outputs' = NodeOutput(response[1])
              /\ Step("done", None, calls, Await(inflight, "download"),
                      texture_prompt, texture_image_url, image_urls)
         ELSE /\ Raise(FetchError, Await(inflight, "download"),
                       texture_prompt, texture_image_url, image_urls)
              /\ UNCHANGED <<output_dir, outputs>>
    /\ UNCHANGED <<node, args, response, snapshot, result, npolls, progress>>

(***************************************************************************)
(* Two concurrent execute calls.  The event loop runs one coroutine at a   *)
(* time and may change to the other one at every await: the variables hold *)
(* the locals of the call that runs, peer those of the suspended one.  The *)
(* output directory is the only state the two calls have in common.        *)
(***************************************************************************)
\* the locals of the call that runs
Self ==
    [pc |-> pc, node |-> node, args |-> args, texture_prompt |-> texture_prompt,
     texture_image_url |-> texture_image_url, image_urls |-> image_urls,
     response |-> response, snapshot |-> snapshot, result |-> result,
     npolls |-> npolls, calls |-> calls, inflight |-> inflight, error |-> error,
     outputs |-> outputs, progress |-> progress, cancelled |-> cancelled]

\* a response kept where both calls read and write it (not what the code does)
SwitchSharedResponse ==
    /\ peer' = Self
    /\ pc' = peer.pc
    /\ node' = peer.node
    /\ args' = peer.args
    /\ texture_prompt' = peer.texture_prompt
    /\ texture_image_url' = peer.texture_image_url
    /\ image_urls' = peer.image_urls
    /\ response' = response
    /\ snapshot' = peer.snapshot
    /\ result' = peer.result
    /\ npolls' = peer.npolls
    /\ calls' = peer.calls
    /\ inflight' = peer.inflight
    /\ error' = peer.error
    /\ outputs' = peer.outputs
    /\ progress' = peer.progress
    /\ cancelled' = peer.cancelled
    /\ UNCHANGED output_dir

\* the event loop suspends the call that runs and resumes the other one:
\* every parameter and local of execute belongs to one call
Switch ==
    /\ peer' = Self
    /\ pc' = peer.pc
    /\ node' = peer.node
    /\ args' = peer.args
    /\ texture_prompt' = peer.texture_prompt
    /\ texture_image_url' = peer.texture_image_url
    /\ image_urls' = peer.image_urls
    /\ response' = peer.response
    /\ snapshot' = peer.snapshot
    /\ result' = peer.result
    /\ npolls' = peer.npolls
    /\ calls' = peer.calls
    /\ inflight' = peer.inflight
    /\ error' = peer.error
    /\ outputs' = peer.outputs
    /\ progress' = peer.progress
    /\ cancelled' = peer.cancelled
    /\ UNCHANGED output_dir

\* the arguments the concurrent calls are made with: some of Args(n)
SampleArgs(n) ==
    CASE n = "MeshyTextToModelNode" ->
           {a \in Args(n) : /\ a.prompt = 1
                            /\ a.should_remesh = [should_remesh |-> "false"]
                            /\ a.seed = SeedMin}
      [] n = "MeshyRefineNode" ->
           {a \in Args(n) : a.texture_prompt = 0 /\ ~a.enable_pbr}
      [] n \in ImageNodes ->
           {a \in Args(n) : /\ a.should_remesh = [should_remesh |-> "false"]
                            /\ a.should_texture = [should_texture |-> "false"]
                            /\ a.seed = SeedMin}
      [] n = "MeshyRigModelNode" ->
           {a \in Args(n) : a.height_meters = HeightMax /\ a.texture_image = None}
      [] n = "MeshyAnimateModelNode" ->
           {a \in Args(n) : a.action_id = ActionMax}
      [] n = "MeshyTextureNode" ->
           {a \in Args(n) : /\ a.text_style_prompt = 0
                            /\ a.image_style # None
                            /\ a.enable_original_uv}

\* execute is called while another call may be under way
ExecuteConcurrent ==
    /\ pc = "idle"
    /\ \E n \in Nodes : \E a \in SampleArgs(n) :
         /\ node' = n
         /\ args' = a
         /\ Entry(n, a, inflight)
    /\ UNCHANGED <<response, snapshot, result, npolls, output_dir, outputs, progress>>

NextPair ==
    \/ ExecuteConcurrent
    \/ UploadTextureReturn
    \/ UploadBaseReturn
    \/ CreateReturn
    \/ PollReturn
    \/ DownloadReturn
    \/ Switch

SpecPair == Init /\ [][NextPair]_vars

Next ==
    \/ Execute
    \/ UploadTextureReturn
    \/ UploadBaseReturn
    \/ CreateReturn
    \/ PollReturn
    \/ DownloadReturn

Spec == Init /\ [][Next]_vars

(***************************************************************************)
(* Properties.                                                             *)
(***************************************************************************)
CallsOf(kind) == {i \in DOMAIN calls : calls[i].call = kind}

CreateRequests == {calls[i].data : i \in CallsOf("create")}

NetworkCalls == {"upload_texture", "upload_base", "create", "poll", "download"}

\* the text guidance and the image guidance of a request's texturing slot
TextGuidance(d) ==
    IF "texture_prompt" \in DOMAIN d THEN d.texture_prompt
    ELSE IF "text_style_prompt" \in DOMAIN d THEN d.text_style_prompt
    ELSE None

ImageGuidance(d) ==
    IF "texture_image_url" \in DOMAIN d THEN d.texture_image_url
    ELSE IF "image_style_url" \in DOMAIN d THEN d.image_style_url
    ELSE None

\* execute was called with a non-empty text guidance and an image guidance
\* for the same texturing slot
BothSupplied ==
    CASE node = "MeshyRefineNode" ->
           args.texture_prompt # 0 /\ args.texture_image # None
      [] node \in ImageNodes ->
           /\ args.should_texture.should_texture = "true"
           /\ args.should_texture.texture_prompt # 0
           /\ args.should_texture.texture_image # None
      [] node = "MeshyTextureNode" ->
           args.text_style_prompt # 0 /\ args.image_style # None
      [] OTHER -> FALSE

\* C1: when both the text guidance and the image guidance of a texturing
\* slot are supplied, execute fails with a validation error before any
\* upload, creation, poll or download call; no creation request carries
\* both a text-guidance field and an image-guidance URL.
C1_MutualExclusion ==
    /\ (pc # "idle" /\ BothSupplied) =>
           (pc = "raised" /\ error.kind = "validation" /\ calls = <<>>)
    /\ \A d \in CreateRequests : ~(TextGuidance(d) # None /\ ImageGuidance(d) # None)

C1_Witness ==
    /\ pc = "raised"
    /\ node = "MeshyMultiImageToModelNode"
    /\ BothSupplied

\* the bounded numeric fields of a request lie in their declared intervals
InBounds(d) ==
    /\ "target_polycount" \in DOMAIN d =>
           (d.target_polycount = None
            \/ (d.target_polycount[1] >= PolyMin /\ d.target_polycount[1] <= PolyMax))
    /\ "height_meters" \in DOMAIN d =>
           (d.height_meters >= HeightMin /\ d.height_meters <= HeightMax)
    /\ "seed" \in DOMAIN d => (d.seed >= SeedMin /\ d.seed <= SeedMax)
    /\ "action_id" \in DOMAIN d => (d.action_id >= ActionMin /\ d.action_id <= ActionMax)

\* C2: no creation request carries target_polycount, height_meters, seed
\* or action_id outside its declared closed interval.
C2_BoundsEnforced == \A d \in CreateRequests : InBounds(d)

\* C3: when execute fails with a validation error, it has made no network
\* call, image uploads included.
C3_ValidationBeforeNetwork ==
    (pc = "raised" /\ error.kind = "validation") => calls = <<>>

\* C4: no creation request carries a prompt of more than 600 characters.
C4_PromptCapped ==
    \A d \in CreateRequests :
        /\ "prompt" \in DOMAIN d => d.prompt <= PromptMax
        /\ TextGuidance(d) # None => TextGuidance(d)[1] <= PromptMax

\* C5: a creation request whose should_remesh is false carries neither
\* topology nor target_polycount, and one whose should_texture is false
\* carries neither enable_pbr, texture_prompt nor texture_image_url.
C5_ToggleOmitsSubFields ==
    \A d \in CreateRequests :
        /\ ("should_remesh" \in DOMAIN d /\ ~d.should_remesh) =>
               (d.topology = None /\ d.target_polycount = None)
        /\ ("should_texture" \in DOMAIN d /\ ~d.should_texture) =>
               (d.enable_pbr = None /\ d.texture_prompt = None /\ d.texture_image_url = None)

\* C6: once a status response with the failed status and a vendor message
\* was received, execute has raised an error that contains the message.
C6_FailureCarriesMessage ==
    (snapshot # None /\ snapshot.status = "FAILED" /\ snapshot.message # None) =>
        /\ pc = "raised"
        /\ error.kind = "job_failed"
        /\ \E i \in DOMAIN error.message : error.message[i] = snapshot.message[1]
        /\ outputs = None

C6_Witness ==
    /\ pc = "raised"
    /\ snapshot # None
    /\ snapshot.status = "FAILED"
    /\ snapshot.message = Some("bad mesh")
    /\ npolls >= 1

\* C7: execute neither downloads nor returns before a succeeded status
\* response was received, and the URL it downloads is the artifact URL of
\* that last response.
C7_ResultFromFinalSnapshot ==
    /\ \A i \in CallsOf("download") :
           /\ snapshot # None
           /\ snapshot.status = "SUCCEEDED"
           /\ calls[i].url = (IF snapshot.url = None THEN "" ELSE snapshot.url[1])
    /\ (pc = "done" \/ outputs # None) =>
           (snapshot # None /\ snapshot.status = "SUCCEEDED" /\ CallsOf("download") # {})
    /\ (snapshot # None /\ snapshot.status \in {"PENDING", "IN_PROGRESS"}) =>
           (pc \in {"await_poll", "raised"} /\ outputs = None)

C7_Witness ==
    /\ pc = "done"
    /\ npolls = MaxPolls
    /\ snapshot.url = Some("https://assets/final.glb")

\* C8: execute issues at most one creation call; when that call fails the
\* error leaves execute and neither a poll nor a download was made.
C8_OneCreationCall ==
    /\ Cardinality(CallsOf("create")) <= 1
    /\ (error # None /\ error.kind = "submission") =>
           /\ pc = "raised"
           /\ CallsOf("poll") = {}
           /\ CallsOf("download") = {}
           /\ response = None
           /\ outputs = None
           /\ output_dir = {}

C8_Witness ==
    /\ pc = "raised"
    /\ error.kind = "submission"
    /\ Cardinality(CallsOf("create")) = 1

\* C9: with h the handle the creation call returned, every poll goes to the
\* creation path of the same node followed by h, the download writes
\* meshy_model_<h>.glb in the output directory, and execute returns that
\* file name and h.
C9_HandleIsTheOnlyIdentifier ==
    /\ response = None => (CallsOf("poll") = {} /\ CallsOf("download") = {})
    /\ response # None =>
           /\ \A i \in CallsOf("poll") :
                  /\ \E j \in CallsOf("create") :
                         j < i /\ calls[i].path = calls[j].path \o "/" \o response[1]
                  /\ \A j \in CallsOf("create") :
                         calls[i].path # calls[j].path \o "/" \o InputTaskId(args)
           /\ \A i \in CallsOf("download") :
                  calls[i].dest = "output/meshy_model_" \o response[1] \o ".glb"
           /\ pc = "done" =>
                  /\ outputs = <<"meshy_model_" \o response[1] \o ".glb", response[1]>>
                  /\ output_dir = {"output/meshy_model_" \o response[1] \o ".glb"}

C9_Witness ==
    /\ pc = "done"
    /\ node = "MeshyRefineNode"
    /\ response = Some("h2")
    /\ npolls >= 1

\* C10: at most one network call is in flight; the texture upload has
\* returned when the base upload starts, and every upload has returned
\* when the creation call starts.
C10_OneCallInFlight ==
    /\ Cardinality(inflight) <= 1
    /\ pc = "await_upload_base" => inflight = {"upload_base"}
    /\ pc = "await_create" => inflight = {"create"}
    /\ \A i, j \in DOMAIN calls :
           (i < j /\ calls[j].call = "upload_texture") => calls[i].call \notin NetworkCalls
    /\ \A i, j \in DOMAIN calls :
           (i < j /\ calls[j].call = "upload_base") => calls[i].call = "upload_texture"
    /\ \A i, j \in DOMAIN calls :
           (i < j /\ calls[i].call = "create") => calls[j].call \in {"poll", "download"}

C10_Witness ==
    /\ pc = "await_create"
    /\ node = "MeshyImageToModelNode"
    /\ CallsOf("upload_texture") # {}
    /\ CallsOf("upload_base") # {}

(***************************************************************************)
(* Cancellation.  The caller cancels the task that runs execute: a         *)
(* CancelledError is raised at the await where execute is suspended.       *)
(* execute has no try statement, so the error leaves it; the call in       *)
(* flight is abandoned.                                                    *)
(***************************************************************************)
AwaitStates == {"await_upload_texture", "await_upload_base", "await_create",
                "await_poll", "await_download"}

CancelledError == [kind |-> "cancelled", message |-> <<"CancelledError">>]

\* a CancelledError that is caught, the await going on (not what the code does)
CancelCaught ==
    /\ pc \in AwaitStates
    /\ cancelled = None
    /\ cancelled' = Some(Len(calls))
    /\ UNCHANGED <<pc, node, args, texture_prompt, texture_image_url, image_urls,
                   response, snapshot, result, npolls, calls, inflight, error,
                   output_dir, outputs, progress, peer>>

\* cancelled records the number of network calls made until then
Cancel ==
    /\ pc \in AwaitStates
    /\ cancelled = None
    /\ cancelled' = Some(Len(calls))
    /\ pc' = "cancelled"
    /\ error' = CancelledError
    /\ inflight' = {}
    /\ UNCHANGED <<node, args, texture_prompt, texture_image_url, image_urls,
                   response, snapshot, result, npolls, calls, output_dir, outputs,
                   progress, peer>>

NextCancel ==
    \/ Execute
    \/ UploadTextureReturn
    \/ UploadBaseReturn
    \/ CreateReturn
    \/ PollReturn
    \/ DownloadReturn
    \/ Cancel

SpecCancel == Init /\ [][NextCancel]_vars

\* C12: once the caller has cancelled an execute call, the call has ended
\* with the cancellation error, it starts no further network call (creation,
\* poll, download or upload), none is in flight, and it returns no outputs.
C12_CancelStopsExecution ==
    cancelled # None =>
        /\ pc = "cancelled"
        /\ error = CancelledError
        /\ Len(calls) = cancelled[1]
        /\ inflight = {}
        /\ outputs = None

C12_Witness ==
    /\ cancelled # None
    /\ pc = "cancelled"
    /\ npolls >= 1
    /\ CallsOf("poll") # {}

\* the calls of kind `kind` in the log of the execute call x
CallsIn(x, kind) == {i \in DOMAIN x.calls : x.calls[i].call = kind}

\* the request, the polled handle, the written path and the outputs of the
\* execute call x are those of x's own arguments and of the handle x's own
\* creation call returned
OwnState(x) ==
    /\ \A i \in CallsIn(x, "create") :
           /\ x.calls[i].path = CreatePath(x.node)
           /\ x.calls[i].data =
                  RequestData(x.node, x.args, x.texture_prompt, x.texture_image_url, x.image_urls)
    /\ x.response = None =>
           (CallsIn(x, "poll") = {} /\ CallsIn(x, "download") = {} /\ x.outputs = None)
    /\ x.response # None =>
           /\ CallsIn(x, "create") # {}
           /\ \A i \in CallsIn(x, "poll") :
                  x.calls[i].path = CreatePath(x.node) \o "/" \o x.response[1]
           /\ \A i \in CallsIn(x, "download") :
                  x.calls[i].dest = "output/meshy_model_" \o x.response[1] \o ".glb"
           /\ x.pc = "done" =>
                  /\ x.outputs = <<"meshy_model_" \o x.response[1] \o ".glb", x.response[1]>>
                  /\ ("output/meshy_model_" \o x.response[1] \o ".glb") \in output_dir

\* C11: of two concurrent execute calls, each one's request, polled handle,
\* written file path and outputs are those of its own arguments and of the
\* handle its own creation call returned, and two calls whose creation
\* calls returned different handles do not write the same file path; the
\* output directory holds the files of the calls that returned, no other.
C11_NoSharedState ==
    /\ OwnState(Self)
    /\ OwnState(peer)
    /\ (response # None /\ peer.response # None /\ response # peer.response) =>
           \A i \in CallsOf("download") : \A j \in CallsIn(peer, "download") :
               calls[i].dest # peer.calls[j].dest
    /\ output_dir = UNION {{x.calls[i].dest : i \in CallsIn(x, "download")} :
                               x \in {y \in {Self, peer} : y.pc = "done"}}

C11_Witness ==
    /\ pc = "done"
    /\ peer.pc = "done"
    /\ node = "MeshyRigModelNode"
    /\ peer.node = "MeshyTextureNode"
    /\ response # peer.response
    /\ Cardinality(output_dir) = 2

\* C13 (as stated): whatever sequence of status responses the endpoint
\* returns, the progress values surfaced over one execution never decrease.
C13_ProgressNonDecreasing ==
    [][(progress # None /\ progress' # None) => progress'[1] >= progress[1]]_vars

\* C13 (amended): the progress value surfaced is always the progress field
\* of the latest status response, unchanged; none is surfaced before the
\* first response.
C13_ProgressIsLatestSnapshot ==
    progress = IF snapshot = None THEN None ELSE Some(snapshot.progress)

C13_Witness ==
    /\ pc = "await_poll"
    /\ npolls = 2
    /\ progress = Some(10)
    /\ snapshot.status = "IN_PROGRESS"

\* the execute call was given an optional texture prompt, and it is empty
EmptyTexturePrompt(n, a) ==
    CASE n = "MeshyRefineNode" -> a.texture_prompt = 0
      [] n \in ImageNodes ->
           /\ a.should_texture.should_texture = "true"
           /\ a.should_texture.texture_prompt = 0
      [] OTHER -> FALSE

\* C14: text-to-model with an empty prompt raises the validation error
\* before any network call; an empty optional texture prompt (refine,
\* image-to-model, multi-image-to-model) raises neither the length error nor
\* the both-sources error, and every creation request of such a call has
\* texture_prompt null.
C14_EmptyPrompts ==
    pc # "idle" =>
        /\ (node = "MeshyTextToModelNode" /\ args.prompt = 0) =>
               /\ pc = "raised"
               /\ error = StringInvalid("prompt")
               /\ calls = <<>>
        /\ EmptyTexturePrompt(node, args) =>
               /\ error # StringInvalid("texture_prompt")
               /\ error # ValueError("texture_prompt and texture_image cannot be used at the same time")
               /\ \A i \in CallsOf("create") : calls[i].data.texture_prompt = None
               /\ pc = "done" => CallsOf("create") # {}

C14_Witness ==
    /\ pc = "done"
    /\ node = "MeshyImageToModelNode"
    /\ EmptyTexturePrompt(node, args)
    /\ args.should_texture.texture_image # None
    /\ \E i \in CallsOf("create") : calls[i].data.texture_prompt = None

\* the errors of the steps before the download
EarlyFailures == {"validation", "upload", "submission", "poll", "job_failed"}

\* C15: the output directory holds nothing but the file of the download,
\* which is the last call of the execution, is started at most once and only
\* after a status response said SUCCEEDED; an execution that has raised at
\* validation, upload, creation or polling (a FAILED status included) has
\* started no download, has left the output directory as it was, has no
\* outputs and ends with the error.
C15_OnlyDownloadWrites ==
    /\ Cardinality(CallsOf("download")) <= 1
    /\ \A i \in CallsOf("download") :
           /\ i = Len(calls)
           /\ calls[i - 1].call = "poll"
           /\ snapshot # None
           /\ snapshot.status = "SUCCEEDED"
    /\ output_dir # {} =>
           /\ pc = "done"
           /\ CallsOf("download") # {}
           /\ output_dir = {calls[Len(calls)].dest}
    /\ pc = "done" => (output_dir # {} /\ outputs # None /\ error = None)
    /\ pc = "raised" => (error # None /\ outputs = None)
    /\ (pc = "raised" /\ error.kind \in EarlyFailures) =>
           /\ CallsOf("download") = {}
           /\ output_dir = {}

C15_Witness ==
    /\ pc = "raised"
    /\ error.kind = "job_failed"
    /\ node = "MeshyTextureNode"
    /\ npolls >= 1
    /\ output_dir = {}
    /\ outputs = None

(***************************************************************************)
(* Termination.  Every network call eventually returns (weak fairness of   *)
(* the steps); the status endpoint eventually reports a terminal status    *)
(* (PollReturn accepts at most MaxPolls pending/in-progress responses).    *)
(***************************************************************************)
SpecLive == Init /\ [][Next]_vars /\ WF_vars(Next)

Terminated == pc \in {"done", "raised"}

Pending == snapshot # None /\ snapshot.status \in {"PENDING", "IN_PROGRESS"}

\* C16: every execute call that has started eventually ends, with its
\* outputs or with an error; and while the latest status is pending or in
\* progress the call is still polling (or a poll has raised): it has not
\* returned and has started no download.
C16_Terminates ==
    /\ (pc # "idle") ~> Terminated
    /\ []((outputs # None) <=> pc = "done")
    /\ []((error # None) <=> pc = "raised")
    /\ [](Pending => /\ pc \in {"await_poll", "raised"}
                     /\ calls[Len(calls)].call = "poll"
                     /\ outputs = None)

C16_Witness ==
    /\ pc = "done"
    /\ npolls = MaxPolls
    /\ outputs # None

\* C17: retexture with an empty text_style_prompt and no image_style raises
\* the validation error before any call; refine with an empty
\* texture_prompt and no texture_image starts with the creation call, whose
\* texture_prompt and texture_image_url are both null.
C17_StyleSourceRequired ==
    pc # "idle" =>
        /\ (node = "MeshyTextureNode" /\ args.text_style_prompt = 0 /\ args.image_style = None) =>
               /\ pc = "raised"
               /\ error = ValueError("Either text_style_prompt or image_style is required")
               /\ calls = <<>>
        /\ (node = "MeshyRefineNode" /\ args.texture_prompt = 0 /\ args.texture_image = None) =>
               /\ calls # <<>>
               /\ calls[1].call = "create"
               /\ calls[1].data.texture_prompt = None
               /\ calls[1].data.texture_image_url = None

C17_Witness ==
    /\ pc = "raised"
    /\ node = "MeshyTextureNode"
    /\ args.text_style_prompt = 0
    /\ args.image_style = None
    /\ calls = <<>>

\* C18: the download is never started with an empty artifact URL: a
\* SUCCEEDED status response without the artifact URL ends the execution
\* with an error instead.
C18_NoEmptyDownloadUrl ==
    \A i \in CallsOf("download") : calls[i].url # ""

(***************************************************************************)
(* The schemas (define_schema): the declared outputs of each node, in      *)
(* order, and its task-id input.                                           *)
(***************************************************************************)
ModelFileOutput == [display_name |-> "model_file", type |-> "STRING"]

SchemaOutputs(n) ==
    CASE n \in {"MeshyTextToModelNode", "MeshyRefineNode", "MeshyImageToModelNode",
                "MeshyMultiImageToModelNode"} ->
           <<ModelFileOutput, [display_name |-> "meshy_task_id", type |-> "MESHY_TASK_ID"]>>
      [] n = "MeshyRigModelNode" ->
           <<ModelFileOutput, [display_name |-> "rig_task_id", type |-> "MESHY_RIGGED_TASK_ID"]>>
      [] n = "MeshyAnimateModelNode" -> <<ModelFileOutput>>
      [] n = "MeshyTextureNode" ->
           <<ModelFileOutput, [display_name |-> "meshy_task_id", type |-> "MODEL_TASK_ID"]>>

\* IO.Custom(type).Input(id), None for the nodes that take no task id
TaskIdInput(n) ==
    CASE n \in {"MeshyRefineNode", "MeshyRigModelNode", "MeshyTextureNode"} ->
           Some([id |-> "meshy_task_id", type |-> "MESHY_TASK_ID"])
      [] n = "MeshyAnimateModelNode" ->
           Some([id |-> "rig_task_id", type |-> "MESHY_RIGGED_TASK_ID"])
      [] OTHER -> None

\* an output of type t can be linked to the task-id input of node m
Accepts(m, t) == TaskIdInput(m) # None /\ TaskIdInput(m)[1].type = t

\* C19: a successful execute returns as many values as the schema of its
\* node declares outputs: the file name first, then the task id where the
\* schema declares one.
C19_OutputsMatchSchema ==
    pc = "done" =>
        /\ Len(outputs) = Len(SchemaOutputs(node))
        /\ outputs[1] = ModelFile(response[1])
        /\ Len(SchemaOutputs(node)) >= 2 => outputs[2] = response[1]

\* the nodes that produce a model task
ModelProducers ==
    {"MeshyTextToModelNode", "MeshyRefineNode", "MeshyImageToModelNode",
     "MeshyMultiImageToModelNode", "MeshyTextureNode"}

\* C20: the task id a finished model-producing node returns has the type
\* that every meshy_task_id input (refine, rig, retexture) accepts, and the
\* task id the rig node returns is accepted by the animate node only.
C20_TaskIdsChain ==
    pc = "done" =>
        /\ node \in ModelProducers =>
               \A m \in {"MeshyRefineNode", "MeshyRigModelNode", "MeshyTextureNode"} :
                   Accepts(m, SchemaOutputs(node)[2].type)
        /\ node = "MeshyRigModelNode" =>
               \A m \in Nodes :
                   Accepts(m, SchemaOutputs(node)[2].type) <=> m = "MeshyAnimateModelNode"

====
